---- MODULE Spec2Model ----
(***************************************************************************)
(* Rainow quant desk (src/app.py): the indicator engine                    *)
(* calculate_technical_indicators and the decision engine rainow_brain.    *)
(*                                                                         *)
(* Numbers.  pandas works on IEEE doubles; the model works on exact        *)
(* rationals [n, d] (d > 0, lowest terms) plus the value NaN, so every     *)
(* comparison below is the comparison of the real numbers the doubles      *)
(* approximate.  Prices are in dollars.  Volume is counted in units of     *)
(* 10^6 shares, which keeps every product within 32-bit integers.          *)
(***************************************************************************)
EXTENDS Integers, Sequences, FiniteSets, TLC

(***************************************************************************)
(* Exact rational arithmetic with NaN                                      *)
(***************************************************************************)
RECURSIVE GCD(_, _)
GCD(a, b) == IF b = 0 THEN a ELSE GCD(b, a % b)

Abs(x) == IF x < 0 THEN -x ELSE x

NaN == [n |-> 0, d |-> 0]

IsNa(x) == x.d = 0 /\ x.n = 0

Norm(n, d) ==
    IF d = 1 THEN [n |-> n, d |-> 1]
    ELSE LET g == GCD(Abs(n), d)
         IN  [n |-> n \div g, d |-> d \div g]

Q(n, d) == Norm(n, d)

R(n) == [n |-> n, d |-> 1]

RAdd(x, y) ==
    IF IsNa(x) \/ IsNa(y) THEN NaN
    ELSE Norm(x.n * y.d + y.n * x.d, x.d * y.d)

RSub(x, y) ==
    IF IsNa(x) \/ IsNa(y) THEN NaN
    ELSE Norm(x.n * y.d - y.n * x.d, x.d * y.d)

RMul(x, y) ==
    IF IsNa(x) \/ IsNa(y) THEN NaN
    ELSE Norm(x.n * y.n, x.d * y.d)

\* float division: 0/0 is NaN; x/0 with x # 0 is +-inf, kept as [n |-> +-1, d |-> 0]
RDiv(x, y) ==
    IF IsNa(x) \/ IsNa(y) THEN NaN
    ELSE IF y.n = 0 THEN (IF x.n = 0 THEN NaN
                          ELSE [n |-> IF x.n > 0 THEN 1 ELSE -1, d |-> 0])
    ELSE IF y.n > 0 THEN Norm(x.n * y.d, x.d * y.n)
    ELSE Norm(-(x.n * y.d), x.d * (-y.n))

\* every comparison with NaN is False
RLt(x, y) == ~IsNa(x) /\ ~IsNa(y) /\ x.n * y.d < y.n * x.d

RLe(x, y) == ~IsNa(x) /\ ~IsNa(y) /\ x.n * y.d <= y.n * x.d

RGt(x, y) == RLt(y, x)

RGe(x, y) == RLe(y, x)

RAbs(x) == IF IsNa(x) THEN NaN ELSE [n |-> Abs(x.n), d |-> x.d]

RMin(x, y) == IF RLt(y, x) THEN y ELSE x

RMax(x, y) == IF RGt(y, x) THEN y ELSE x

(***************************************************************************)
(* Program constants                                                       *)
(***************************************************************************)
MinBars == 20

VWAPWindow == 10

MFIWindow == 14

MAWindow == 50

MFIOversoldLevel == 25

NeutralMFI == 50

VetoScore == -99

\* -0.05, 0.05, 1.02, 0.8, 1.2, 2, 0.5
VetoThreshold == Q(-5, 100)

DefaultGrowth == Q(5, 100)

PullbackFactor == Q(102, 100)

BandLow == Q(8, 10)

BandHigh == Q(12, 10)

HammerLower == R(2)

HammerUpper == Q(1, 2)

(***************************************************************************)
(* Data frames: an index (row labels) and rows.  A label is a RangeIndex   *)
(* position or a timestamp.                                                *)
(***************************************************************************)
IntLabel(k) == [kind |-> "int", k |-> k]

DateLabel(k) == [kind |-> "date", k |-> k]

Empty(df) == Len(df.rows) = 0

\* Series.get(key, default) on a row
Get(row, key, default) == IF key \in DOMAIN row THEN row[key] ELSE default

\* Series.get(key) used as a condition: a missing key gives None, which is falsy
GetFlag(row, key) == IF key \in DOMAIN row THEN row[key] ELSE FALSE

\* a column of a frame, held as a materialised sequence
Column(f) == f \o <<>>

RECURSIVE SumRange(_, _, _)
SumRange(vals, lo, hi) ==
    IF lo > hi THEN R(0) ELSE RAdd(SumRange(vals, lo, hi - 1), vals[hi])

\* Series.rolling(window=w).sum(): the sum of the trailing w values, NaN on the
\* first w - 1 positions
RollingSum(vals, w) ==
    Column([i \in 1..Len(vals) |-> IF i < w THEN NaN ELSE SumRange(vals, i - w + 1, i)])

\* df[col] = pd.Series(list): the new series carries a RangeIndex 0..n-1 and is
\* aligned on df's index labels; a label it does not carry gives NaN
AlignToIndex(vals, index) ==
    Column([i \in 1..Len(index) |->
        IF index[i].kind = "int" /\ index[i].k >= 0 /\ index[i].k < Len(vals)
        THEN vals[index[i].k + 1]
        ELSE NaN])

TypicalPrice(bar) == RDiv(RAdd(RAdd(bar.High, bar.Low), bar.Close), R(3))

IsHammerBar(bar) ==
    LET body         == RAbs(RSub(bar.Close, bar.Open))
        lower_shadow == RSub(RMin(bar.Open, bar.Close), bar.Low)
        upper_shadow == RSub(bar.High, RMax(bar.Open, bar.Close))
    IN  RGe(lower_shadow, RMul(body, HammerLower)) /\ RLe(upper_shadow, RMul(body, HammerUpper))

\* shift(1) gives NaN on the first row, and every comparison with NaN is False
IsEngulfingBar(rows, i) ==
    /\ i > 1
    /\ RGt(rows[i].Close, rows[i].Open)
    /\ RLt(rows[i].Open, rows[i - 1].Close)
    /\ RGt(rows[i].Close, rows[i - 1].Open)
    /\ RLt(rows[i - 1].Close, rows[i - 1].Open)

\* mfi_ratio = PosMF / NegMF.replace(0, 1); MFI = 100 - 100 / (1 + mfi_ratio).
\* The substituted 1 is one unit of price x volume; with NegMF = 0 the flag MFI < 25
\* asks PosMF < 1/3, which on the frames below (PosMF is 0 or at least one price)
\* does not depend on the unit.
MFIFromSums(pos, neg) ==
    LET denom     == IF ~IsNa(neg) /\ neg.n = 0 THEN R(1) ELSE neg
        mfi_ratio == RDiv(pos, denom)
    IN  RSub(R(100), RDiv(R(100), RAdd(R(1), mfi_ratio)))

calculate_technical_indicators(df) ==
    IF Empty(df) \/ Len(df.rows) < MinBars THEN df
    ELSE
      LET rows == df.rows
          n    == Len(rows)
          tp   == Column([i \in 1..n |-> TypicalPrice(rows[i])])
          pv   == Column([i \in 1..n |-> RMul(tp[i], rows[i].Volume)])
          vol  == Column([i \in 1..n |-> rows[i].Volume])
          positive_flow == Column([i \in 1..n |->
                              IF i > 1 /\ RGt(tp[i], tp[i - 1]) THEN pv[i] ELSE R(0)])
          negative_flow == Column([i \in 1..n |->
                              IF i > 1 /\ ~RGt(tp[i], tp[i - 1]) /\ RLt(tp[i], tp[i - 1])
                              THEN pv[i] ELSE R(0)])
          pvsum  == RollingSum(pv, VWAPWindow)
          volsum == RollingSum(vol, VWAPWindow)
          PosMF  == AlignToIndex(RollingSum(positive_flow, MFIWindow), df.index)
          NegMF  == AlignToIndex(RollingSum(negative_flow, MFIWindow), df.index)
          mfi    == Column([i \in 1..n |-> MFIFromSums(PosMF[i], NegMF[i])])
      IN  [index |-> df.index,
           rows  |-> [i \in 1..n |->
              [Open |-> rows[i].Open, High |-> rows[i].High, Low |-> rows[i].Low,
               Close |-> rows[i].Close, Volume |-> rows[i].Volume,
               TP |-> tp[i], PV |-> pv[i],
               Rolling_VWAP_10D |-> RDiv(pvsum[i], volsum[i]),
               PosMF |-> PosMF[i], NegMF |-> NegMF[i],
               MFI |-> mfi[i],
               MFI_Divergence |-> RLt(mfi[i], R(MFIOversoldLevel)),
               Is_Hammer |-> IsHammerBar(rows[i]),
               Is_Engulfing |-> IsEngulfingBar(rows, i)]]]

(***************************************************************************)
(* Inputs: the daily frame, the intraday frame, the metadata record        *)
(***************************************************************************)
MaxExtraBars == 0

MaxVolume == 1

MaxUpperShadow == 1

\* a candle shape: Open = Close + dO, upper and lower shadows up and lo
Candles == [dO : {-3, 0, 1}, up : 0..MaxUpperShadow, lo : {0, 6}]

FlatTopCandles == {c \in Candles : c.up = 0}

BodyCandle == [dO |-> 1, up |-> 0, lo |-> 0]

MakeBar(c, candle, v) ==
    LET o  == c + candle.dO
        hi == (IF o > c THEN o ELSE c) + candle.up
        lw == (IF o < c THEN o ELSE c) - candle.lo
    IN  [Open |-> R(o), High |-> R(hi), Low |-> R(lw), Close |-> R(c), Volume |-> R(v)]

Label(kind, i) == IF kind = "int" THEN IntLabel(i - 1) ELSE DateLabel(i)

\* n bars whose Close moves by drift per bar and ends at 200; the last bar has its
\* own candle shape
GenSeries(n, drift, last, v, kind) ==
    [index |-> [i \in 1..n |-> Label(kind, i)],
     rows  |-> [i \in 1..n |->
                  MakeBar(200 + drift * (i - n), IF i = n THEN last ELSE BodyCandle, v)]]

Drifts == {-1, 2}

IndexKinds == {"int", "date"}

EmptyFrame == [index |-> <<>>, rows |-> <<>>]

\* the linear-rise scenario: 60 bars, Close linear from 100 to 130,
\* Open = High = Low = Close, Volume constant 1,000,000 (one unit)
ScenarioSeries(kind) ==
    [index |-> [i \in 1..60 |-> Label(kind, i)],
     rows  |-> [i \in 1..60 |->
                  LET c == Q(100 * 59 + 30 * (i - 1), 59)
                  IN  [Open |-> c, High |-> c, Low |-> c, Close |-> c, Volume |-> R(1)]]]

\* too short for the indicators
ShortFrames ==
    {GenSeries(n, dr, c, 1, "date") : n \in {1, MinBars - 1}, dr \in Drifts, c \in FlatTopCandles}

\* long enough for the indicators, too short for the 50-session average
EnrichedFrames ==
    {GenSeries(n, dr, c, v, k) :
        n \in MinBars..(MinBars + MaxExtraBars), dr \in Drifts, c \in FlatTopCandles,
        v \in {0, MaxVolume}, k \in IndexKinds}

\* long enough for the 50-session average
LongFrames == {GenSeries(MAWindow, dr, BodyCandle, 1, "date") : dr \in Drifts}

DailyFrames == {EmptyFrame} \cup ShortFrames \cup EnrichedFrames \cup LongFrames

\* the frames the indicator engine is checked on
IndicatorFrames ==
    {ScenarioSeries(k) : k \in IndexKinds}
    \cup {GenSeries(n, dr, c, v, k) :
            n \in {1, MinBars - 1, MAWindow} \cup (MinBars..(MinBars + MaxExtraBars + 1)),
            dr \in Drifts \cup {0}, c \in Candles, v \in {0, MaxVolume}, k \in IndexKinds}

\* the intraday frame: only its last Close and the type of its last index entry are read
RtRow(close, stamped) == [Close |-> close, stamped |-> stamped]

RtFrames ==
    {<<>>, <<RtRow(R(206), TRUE)>>, <<RtRow(R(206), FALSE)>>,
     <<RtRow(NaN, TRUE)>>, <<RtRow(R(0), TRUE)>>}

\* metadata values: a number or None
Some(x) == [some |-> TRUE, v |-> x]

None == [some |-> FALSE, v |-> NaN]

InfoKeys == {"targetLowPrice", "targetHighPrice", "earningsGrowth", "revenueGrowth"}

\* dict.get(key, default)
InfoGet(d, key, default) == IF key \in DOMAIN d THEN d[key] ELSE default

TargetLows == {Some(R(190)), Some(R(210))}

TargetHighs == {Some(R(195))}

EarningsGrowths == {Some(Q(-10, 100)), Some(Q(-5, 100))}

RevenueGrowths == {None, Some(Q(-6, 100))}

KeyValues(k) ==
    CASE k = "targetLowPrice"  -> TargetLows
      [] k = "targetHighPrice" -> TargetHighs
      [] k = "earningsGrowth"  -> EarningsGrowths
      [] k = "revenueGrowth"   -> RevenueGrowths

\* every record over every subset of the four optional keys
Infos ==
    UNION {{d \in [ks -> UNION {KeyValues(k) : k \in ks}] :
              \A k \in ks : d[k] \in KeyValues(k)} : ks \in SUBSET InfoKeys}

ScenarioInfo ==
    [targetLowPrice |-> Some(R(90)), targetHighPrice |-> Some(R(120)),
     earningsGrowth |-> Some(Q(10, 100))]

ScenarioRt == <<RtRow(R(135), TRUE)>>

(***************************************************************************)
(* rainow_brain: state                                                     *)
(***************************************************************************)
VARIABLES hist_daily, rt_data, info, df_daily, vwap, mfi_val, current_price,
          price_source, target_low, target_high, val_source, eps_growth,
          score, reasons, bias, result, pc

vars == <<hist_daily, rt_data, info, df_daily, vwap, mfi_val, current_price,
          price_source, target_low, target_high, val_source, eps_growth,
          score, reasons, bias, result, pc>>

inputs == <<hist_daily, rt_data, info>>

NoData == [k \in {} |-> NaN]

NoResult == [verdict |-> "", color |-> "", score |-> 0, advice |-> "",
             reasons |-> <<>>, data |-> NoData]

Latest(df) == df.rows[Len(df.rows)]

(***************************************************************************)
(* rainow_brain: the rules                                                 *)
(***************************************************************************)
\* vwap = latest_daily.get('Rolling_VWAP_10D', 0); if pd.isna(vwap): vwap = Close
IndicatorVWAP(latest) ==
    LET v == Get(latest, "Rolling_VWAP_10D", R(0))
    IN  IF IsNa(v) THEN latest.Close ELSE v

\* mfi_val = latest_daily.get('MFI', 50); if pd.isna(mfi_val): mfi_val = 50
IndicatorMFI(latest) ==
    LET m == Get(latest, "MFI", R(NeutralMFI))
    IN  IF IsNa(m) THEN R(NeutralMFI) ELSE m

LiveUsable(rt) ==
    /\ Len(rt) > 0
    /\ ~IsNa(rt[Len(rt)].Close)
    /\ RGt(rt[Len(rt)].Close, R(0))

CurrentPrice(latest, rt) == IF LiveUsable(rt) THEN rt[Len(rt)].Close ELSE latest.Close

\* astimezone on an index entry that is no timestamp raises, and the bare except
\* leaves the plain label
PriceSource(rt) ==
    IF ~LiveUsable(rt) THEN "daily close"
    ELSE IF rt[Len(rt)].stamped THEN "live HH:MM NY" ELSE "live"

\* hist_daily['Close'].rolling(50).mean().iloc[-1]
MA50(df) ==
    LET n == Len(df.rows)
    IN  RDiv(RollingSum(Column([i \in 1..n |-> df.rows[i].Close]), MAWindow)[n], R(MAWindow))

FallbackMA(df, price) == IF IsNa(MA50(df)) THEN price ELSE MA50(df)

TargetLow(d, df, price) ==
    IF InfoGet(d, "targetLowPrice", None) = None
    THEN Some(RMul(FallbackMA(df, price), BandLow))
    ELSE InfoGet(d, "targetLowPrice", None)

TargetHigh(d, df, price) ==
    IF InfoGet(d, "targetLowPrice", None) = None
    THEN Some(RMul(FallbackMA(df, price), BandHigh))
    ELSE InfoGet(d, "targetHighPrice", None)

ValSource(d) ==
    IF InfoGet(d, "targetLowPrice", None) = None THEN "MA50 estimate" ELSE "analysts"

GrowthFigure(d) ==
    LET e1 == InfoGet(d, "earningsGrowth", None)
        e2 == IF e1 = None THEN InfoGet(d, "revenueGrowth", Some(DefaultGrowth)) ELSE e1
    IN  IF e2 = None THEN DefaultGrowth ELSE e2.v

\* mutant: the veto taken at the threshold itself
VetoApplies_AtThreshold(g) == RLe(g, VetoThreshold)

VetoApplies(g) == RLt(g, VetoThreshold)

Undervalued(price, tl) == RLt(price, tl.v)

\* float > None raises TypeError; the elif is evaluated only when the if is false
ValuationRaises(price, tl, th) == ~Undervalued(price, tl) /\ th = None

Overvalued(price, tl, th) == ~Undervalued(price, tl) /\ th # None /\ RGt(price, th.v)

ValuationPoints(price, tl, th) ==
    IF Undervalued(price, tl) THEN 3 ELSE IF Overvalued(price, tl, th) THEN -3 ELSE 0

ValuationReasons(price, tl, th) ==
    IF Undervalued(price, tl) THEN <<"undervalued">>
    ELSE IF Overvalued(price, tl, th) THEN <<"overvalued">> ELSE <<>>

Bias(price, vw) ==
    IF RGt(vw, R(0)) THEN RMul(RDiv(RSub(price, vw), vw), R(100)) ELSE R(0)

AboveVWAP(price, vw) == RGt(price, vw)

\* mutant: the pullback test against the VWAP itself, without the 2% allowance
SupportHeld_NoAllowance(latest, price, vw) ==
    RLe(Get(latest, "Low", R(0)), vw) /\ RGt(price, vw)

SupportHeld(latest, price, vw) ==
    RLe(Get(latest, "Low", R(0)), RMul(vw, PullbackFactor)) /\ RGt(price, vw)

\* mutant: a price at or below the VWAP costs 1 instead of 2
VWAPPoints_WeakPenalty(latest, price, vw) ==
    IF AboveVWAP(price, vw)
    THEN 1 + (IF SupportHeld(latest, price, vw) THEN 2 ELSE 0)
    ELSE -1

VWAPPoints(latest, price, vw) ==
    IF AboveVWAP(price, vw)
    THEN 1 + (IF SupportHeld(latest, price, vw) THEN 2 ELSE 0)
    ELSE -2

VWAPReason(latest, price, vw) ==
    IF AboveVWAP(price, vw)
    THEN (IF SupportHeld(latest, price, vw) THEN "support held" ELSE "above vwap")
    ELSE "below vwap"

ReversalSignal(latest) == GetFlag(latest, "Is_Hammer") \/ GetFlag(latest, "Is_Engulfing")

Oversold(latest) == GetFlag(latest, "MFI_Divergence")

\* mutant: hammer and engulfing counted apart, and the oversold flag worth 3
TechnicalPoints_PerFlag(latest) ==
    (IF GetFlag(latest, "Is_Hammer") THEN 2 ELSE 0)
    + (IF GetFlag(latest, "Is_Engulfing") THEN 2 ELSE 0)
    + (IF Oversold(latest) THEN 3 ELSE 0)

TechnicalPoints(latest) ==
    (IF ReversalSignal(latest) THEN 2 ELSE 0) + (IF Oversold(latest) THEN 2 ELSE 0)

TechnicalReasons(latest) ==
    (IF ReversalSignal(latest) THEN <<"reversal candle">> ELSE <<>>)
    \o (IF Oversold(latest) THEN <<"mfi oversold">> ELSE <<>>)

\* mutant: Trend Buy without the price > VWAP condition
VerdictLabel_NoTrendCheck(s, price, vw) ==
    IF s >= 6 THEN "Strong Buy"
    ELSE IF 3 <= s /\ s <= 5 THEN "Trend Buy"
    ELSE IF 0 <= s /\ s <= 2 THEN "Wait"
    ELSE "Warning"

VerdictLabel(s, price, vw) ==
    IF s >= 6 THEN "Strong Buy"
    ELSE IF 3 <= s /\ s <= 5 /\ RGt(price, vw) THEN "Trend Buy"
    ELSE IF 0 <= s /\ s <= 2 THEN "Wait"
    ELSE "Warning"

VerdictColor(label) ==
    CASE label = "Strong Buy" -> "green"
      [] label = "Trend Buy"  -> "blue"
      [] label = "Wait"       -> "gray"
      [] OTHER                -> "red"

EchoData ==
    [price |-> current_price, vwap |-> vwap, val_low |-> target_low,
     val_high |-> target_high, eps |-> eps_growth, val_source |-> val_source,
     mfi |-> mfi_val, price_src |-> price_source]

(***************************************************************************)
(* rainow_brain: one action per step of the function                       *)
(***************************************************************************)
NoInfo == [k \in {} |-> None]

Unset ==
    /\ df_daily = EmptyFrame
    /\ vwap = NaN
    /\ mfi_val = NaN
    /\ current_price = NaN
    /\ price_source = ""
    /\ target_low = None
    /\ target_high = None
    /\ val_source = ""
    /\ eps_growth = NaN
    /\ score = 0
    /\ reasons = <<>>
    /\ bias = NaN
    /\ result = NoResult

Init ==
    /\ \/ /\ hist_daily \in DailyFrames
          /\ rt_data \in RtFrames
          /\ info \in Infos
       \/ /\ hist_daily \in {ScenarioSeries(k) : k \in IndexKinds}
          /\ rt_data = ScenarioRt
          /\ info = ScenarioInfo
    /\ Unset
    /\ pc = "start"

\* mutant: the empty-frame check placed after the growth veto
DataError_AfterVeto ==
    /\ pc = "start"
    /\ Empty(hist_daily)
    /\ result' = IF VetoApplies(GrowthFigure(info))
                 THEN [verdict |-> "Avoid", color |-> "inverse", score |-> VetoScore,
                       advice |-> "value trap", reasons |-> <<"negative growth">>,
                       data |-> NoData]
                 ELSE [verdict |-> "data error", color |-> "red", score |-> 0,
                       advice |-> "no history", reasons |-> <<>>, data |-> NoData]
    /\ pc' = "done"
    /\ UNCHANGED <<inputs, df_daily, vwap, mfi_val, current_price, price_source,
                   target_low, target_high, val_source, eps_growth, score, reasons, bias>>

\* Step 0, empty frame: the terminal data-error verdict
DataError ==
    /\ pc = "start"
    /\ Empty(hist_daily)
    /\ result' = [verdict |-> "data error", color |-> "red", score |-> 0,
                  advice |-> "no history", reasons |-> <<>>, data |-> NoData]
    /\ pc' = "done"
    /\ UNCHANGED <<inputs, df_daily, vwap, mfi_val, current_price, price_source,
                   target_low, target_high, val_source, eps_growth, score, reasons, bias>>

\* Step 0: the indicators and the two values read from the latest bar
Indicators ==
    /\ pc = "start"
    /\ ~Empty(hist_daily)
    /\ df_daily' = calculate_technical_indicators(hist_daily)
    /\ vwap' = IndicatorVWAP(Latest(df_daily'))
    /\ mfi_val' = IndicatorMFI(Latest(df_daily'))
    /\ pc' = "price"
    /\ UNCHANGED <<inputs, current_price, price_source, target_low, target_high,
                   val_source, eps_growth, score, reasons, bias, result>>

\* Step 1: the current price
DeterminePrice ==
    /\ pc = "price"
    /\ current_price' = CurrentPrice(Latest(df_daily), rt_data)
    /\ price_source' = PriceSource(rt_data)
    /\ pc' = "valuation"
    /\ UNCHANGED <<inputs, df_daily, vwap, mfi_val, target_low, target_high,
                   val_source, eps_growth, score, reasons, bias, result>>

\* A: the valuation band
Valuation ==
    /\ pc = "valuation"
    /\ target_low' = TargetLow(info, hist_daily, current_price)
    /\ target_high' = TargetHigh(info, hist_daily, current_price)
    /\ val_source' = ValSource(info)
    /\ pc' = "growth"
    /\ UNCHANGED <<inputs, df_daily, vwap, mfi_val, current_price, price_source,
                   eps_growth, score, reasons, bias, result>>

\* B: the growth figure
Growth ==
    /\ pc = "growth"
    /\ eps_growth' = GrowthFigure(info)
    /\ pc' = "veto"
    /\ UNCHANGED <<inputs, df_daily, vwap, mfi_val, current_price, price_source,
                   target_low, target_high, val_source, score, reasons, bias, result>>

\* rule 1: the veto returns at once
GrowthVeto ==
    /\ pc = "veto"
    /\ VetoApplies(eps_growth)
    /\ result' = [verdict |-> "Avoid", color |-> "inverse", score |-> VetoScore,
                  advice |-> "value trap", reasons |-> <<"negative growth">>,
                  data |-> EchoData]
    /\ pc' = "done"
    /\ UNCHANGED <<inputs, df_daily, vwap, mfi_val, current_price, price_source,
                   target_low, target_high, val_source, eps_growth, score, reasons, bias>>

\* rule 2: valuation
ScoreValuation ==
    /\ pc = "veto"
    /\ ~VetoApplies(eps_growth)
    /\ ~ValuationRaises(current_price, target_low, target_high)
    /\ score' = ValuationPoints(current_price, target_low, target_high)
    /\ reasons' = ValuationReasons(current_price, target_low, target_high)
    /\ pc' = "vwap"
    /\ UNCHANGED <<inputs, df_daily, vwap, mfi_val, current_price, price_source,
                   target_low, target_high, val_source, eps_growth, bias, result>>

\* rule 2 with target_high None: the comparison raises TypeError out of rainow_brain
ValuationTypeError ==
    /\ pc = "veto"
    /\ ~VetoApplies(eps_growth)
    /\ ValuationRaises(current_price, target_low, target_high)
    /\ pc' = "raised"
    /\ UNCHANGED <<inputs, df_daily, vwap, mfi_val, current_price, price_source,
                   target_low, target_high, val_source, eps_growth, score, reasons,
                   bias, result>>

\* rule 3: price against the rolling VWAP
ScoreVWAP ==
    /\ pc = "vwap"
    /\ bias' = Bias(current_price, vwap)
    /\ score' = score + VWAPPoints(Latest(df_daily), current_price, vwap)
    /\ reasons' = Append(reasons, VWAPReason(Latest(df_daily), current_price, vwap))
    /\ pc' = "technical"
    /\ UNCHANGED <<inputs, df_daily, vwap, mfi_val, current_price, price_source,
                   target_low, target_high, val_source, eps_growth, result>>

\* rule 4: technical signals
ScoreTechnical ==
    /\ pc = "technical"
    /\ score' = score + TechnicalPoints(Latest(df_daily))
    /\ reasons' = reasons \o TechnicalReasons(Latest(df_daily))
    /\ pc' = "verdict"
    /\ UNCHANGED <<inputs, df_daily, vwap, mfi_val, current_price, price_source,
                   target_low, target_high, val_source, eps_growth, bias, result>>

\* rule 5: the verdict and the returned record
Conclude ==
    /\ pc = "verdict"
    /\ result' = [verdict |-> VerdictLabel(score, current_price, vwap),
                  color |-> VerdictColor(VerdictLabel(score, current_price, vwap)),
                  score |-> score,
                  advice |-> VerdictLabel(score, current_price, vwap),
                  reasons |-> reasons, data |-> EchoData]
    /\ pc' = "done"
    /\ UNCHANGED <<inputs, df_daily, vwap, mfi_val, current_price, price_source,
                   target_low, target_high, val_source, eps_growth, score, reasons, bias>>

Next ==
    \/ DataError
    \/ Indicators
    \/ DeterminePrice
    \/ Valuation
    \/ Growth
    \/ GrowthVeto
    \/ ScoreValuation
    \/ ValuationTypeError
    \/ ScoreVWAP
    \/ ScoreTechnical
    \/ Conclude

Spec == Init /\ [][Next]_vars

(***************************************************************************)
(* calculate_technical_indicators on its own                               *)
(***************************************************************************)
InitIndicators ==
    /\ hist_daily \in IndicatorFrames
    /\ rt_data = <<>>
    /\ info = NoInfo
    /\ Unset
    /\ pc = "start"

Enrich ==
    /\ pc = "start"
    /\ df_daily' = calculate_technical_indicators(hist_daily)
    /\ pc' = "enriched"
    /\ UNCHANGED <<inputs, vwap, mfi_val, current_price, price_source, target_low,
                   target_high, val_source, eps_growth, score, reasons, bias, result>>

NextIndicators == Enrich

SpecIndicators == InitIndicators /\ [][NextIndicators]_vars

(***************************************************************************)
(* Rule 5 on its own: every score in the range against every price/VWAP    *)
(* relation                                                                *)
(***************************************************************************)
ScoreRange == 10

MaxMapPrice == 3

InitVerdict ==
    /\ hist_daily = EmptyFrame
    /\ rt_data = <<>>
    /\ info = NoInfo
    /\ df_daily = EmptyFrame
    /\ vwap \in {R(p) : p \in 1..MaxMapPrice}
    /\ mfi_val = R(NeutralMFI)
    /\ current_price \in {R(p) : p \in 1..MaxMapPrice}
    /\ price_source = "daily close"
    /\ target_low = None
    /\ target_high = None
    /\ val_source = ""
    /\ eps_growth = DefaultGrowth
    /\ score \in (-ScoreRange)..ScoreRange
    /\ reasons = <<>>
    /\ bias = NaN
    /\ result = NoResult
    /\ pc = "verdict"

NextVerdict == Conclude

SpecVerdict == InitVerdict /\ [][NextVerdict]_vars

(***************************************************************************)
(* Properties                                                              *)
(***************************************************************************)
Returned == pc = "done"

PastVeto == pc \in {"vwap", "technical", "verdict", "done", "raised"}

Scored == Returned /\ result.verdict \notin {"data error", "Avoid"}

\* the growth figure as the metadata gives it: earningsGrowth, else revenueGrowth,
\* else 0.05
StatedGrowth ==
    IF "earningsGrowth" \in DOMAIN info /\ info["earningsGrowth"].some
    THEN info["earningsGrowth"].v
    ELSE IF "revenueGrowth" \in DOMAIN info /\ info["revenueGrowth"].some
    THEN info["revenueGrowth"].v
    ELSE Q(5, 100)

IsAvoid ==
    /\ Returned
    /\ result.score = -99
    /\ result.verdict = "Avoid"
    /\ Len(result.reasons) = 1

\* C1: on a non-empty daily series, whatever the targets, VWAP, price and flags,
\* a growth figure strictly below -0.05 returns score -99, "Avoid" and exactly one
\* reason; a growth figure of -0.05 or more never returns that verdict
C1_GrowthVetoAbsolute ==
    (PastVeto /\ ~Empty(hist_daily)) => (RLt(StatedGrowth, Q(-5, 100)) <=> IsAvoid)

\* C1 witness: the veto taken through the revenue-growth fallback on a frame whose
\* latest bar is a hammer and whose targets would have scored +3
C1_Witness ==
    /\ IsAvoid
    /\ "earningsGrowth" \notin DOMAIN info
    /\ GetFlag(Latest(df_daily), "Is_Hammer")
    /\ RLt(current_price, target_low.v)

\* C1 witness of the boundary: a growth figure of exactly -0.05 is scored
C1_BoundaryWitness == Scored /\ StatedGrowth = Q(-5, 100)

StatedLabel(s, above) ==
    IF s >= 6 THEN "Strong Buy"
    ELSE IF s >= 3 /\ s <= 5 /\ above THEN "Trend Buy"
    ELSE IF s >= 0 /\ s <= 2 THEN "Wait"
    ELSE "Warning"

\* C2: every integer score in [-10, 10] with either price/VWAP relation maps to
\* exactly one of the four labels: >= 6 Strong Buy; 3..5 above VWAP Trend Buy;
\* 0..2 Wait; everything else Warning
C2_VerdictMappingTotal ==
    Returned =>
        /\ result.verdict \in {"Strong Buy", "Trend Buy", "Wait", "Warning"}
        /\ result.verdict = StatedLabel(result.score, RGt(current_price, vwap))
        /\ result.score = score

\* C2 witness: a score of 3..5 at or below VWAP falls through to Warning
C2_Witness ==
    /\ Returned
    /\ score = 4
    /\ ~RGt(current_price, vwap)
    /\ result.verdict = "Warning"

IsScenario ==
    /\ rt_data = ScenarioRt
    /\ info = ScenarioInfo
    /\ hist_daily \in {ScenarioSeries(k) : k \in IndexKinds}

UndefinedOnLatest(key) ==
    key \notin DOMAIN Latest(df_daily) \/ IsNa(Latest(df_daily)[key])

\* C4: whenever the latest bar has no defined RollingVWAP10 or MFI (in particular on
\* every series of 1 to 19 bars) rainow_brain uses the latest daily Close as the VWAP
\* and 50 as the MFI, in the rules and in the echoed data
C4_UndefinedSubstitution ==
    (pc # "start" /\ ~Empty(hist_daily)) =>
        /\ UndefinedOnLatest("Rolling_VWAP_10D") => vwap = Latest(hist_daily).Close
        /\ UndefinedOnLatest("MFI") => mfi_val = R(50)
        /\ (Returned /\ UndefinedOnLatest("Rolling_VWAP_10D"))
              => result.data.vwap = Latest(hist_daily).Close
        /\ (Returned /\ UndefinedOnLatest("MFI")) => result.data.mfi = R(50)

\* C5: missing metadata is never surfaced as an error: rainow_brain never raises,
\* whatever subset of the four optional fields is absent
C5_MissingMetadataNeverRaises == pc # "raised"

\* C6: in an enriched series a bar whose body |Close - Open| is 0 is never a hammer
C6_DojiNeverHammer ==
    (pc = "enriched" /\ Len(hist_daily.rows) >= 20) =>
        \A i \in 1..Len(df_daily.rows) :
            df_daily.rows[i].Close = df_daily.rows[i].Open => ~df_daily.rows[i].Is_Hammer

\* C7: an empty daily series returns the data-error verdict with score 0 and no
\* reasons, before any other rule has run, whatever the intraday series and the
\* metadata are
C7_EmptySeriesDataError ==
    Empty(hist_daily) =>
        /\ pc \in {"start", "done"}
        /\ Returned =>
              /\ result.verdict = "data error"
              /\ result.score = 0
              /\ result.reasons = <<>>
              /\ eps_growth = NaN
              /\ current_price = NaN
              /\ target_low = None

\* C7 witness: the data-error verdict on metadata whose growth would be vetoed and
\* with a usable intraday price
C7_Witness ==
    /\ Returned
    /\ Empty(hist_daily)
    /\ RLt(StatedGrowth, Q(-5, 100))
    /\ LiveUsable(rt_data)
    /\ result.verdict = "data error"

StatedTP(bar) == RDiv(RAdd(RAdd(bar.High, bar.Low), bar.Close), R(3))

StrictlyDecreasingTP ==
    \A i \in 2..Len(hist_daily.rows) :
        RLt(StatedTP(hist_daily.rows[i]), StatedTP(hist_daily.rows[i - 1]))

\* C8: on a series of 20 bars or more whose TypicalPrice strictly decreases, MFI is 0
\* on every bar from the 14th on and undefined on the first 13
C8_DecreasingMFIZero ==
    (pc = "enriched" /\ Len(hist_daily.rows) >= 20 /\ StrictlyDecreasingTP) =>
        \A i \in 1..Len(df_daily.rows) :
            IF i >= 14 THEN df_daily.rows[i].MFI = R(0) ELSE IsNa(df_daily.rows[i].MFI)

\* what C8 says holds when the frame is indexed 0..n-1
C8_RangeIndexed ==
    (pc = "enriched" /\ Len(hist_daily.rows) >= 20 /\ StrictlyDecreasingTP
        /\ hist_daily.index[1].kind = "int") =>
        \A i \in 1..Len(df_daily.rows) :
            IF i >= 14 THEN df_daily.rows[i].MFI = R(0) ELSE IsNa(df_daily.rows[i].MFI)

StatedValuation ==
    IF RLt(current_price, target_low.v) THEN 3
    ELSE IF target_high.some /\ RGt(current_price, target_high.v) THEN -3
    ELSE 0

StatedPullback == RLe(Latest(hist_daily).Low, RMul(Q(102, 100), vwap))

StatedVWAP ==
    IF RGt(current_price, vwap) THEN (IF StatedPullback THEN 3 ELSE 1) ELSE -2

StatedReversal ==
    \/ ("Is_Hammer" \in DOMAIN Latest(df_daily) /\ Latest(df_daily).Is_Hammer)
    \/ ("Is_Engulfing" \in DOMAIN Latest(df_daily) /\ Latest(df_daily).Is_Engulfing)

StatedOversold ==
    "MFI_Divergence" \in DOMAIN Latest(df_daily) /\ Latest(df_daily).MFI_Divergence

StatedReasons ==
    (IF StatedValuation = 3 THEN <<"undervalued">>
     ELSE IF StatedValuation = -3 THEN <<"overvalued">> ELSE <<>>)
    \o (IF StatedVWAP = 3 THEN <<"support held">>
        ELSE IF StatedVWAP = 1 THEN <<"above vwap">> ELSE <<"below vwap">>)
    \o (IF StatedReversal THEN <<"reversal candle">> ELSE <<>>)
    \o (IF StatedOversold THEN <<"mfi oversold">> ELSE <<>>)

\* C9: on every non-vetoed evaluation of a non-empty series the final score is the
\* sum of the valuation (+3 / -3 / 0), VWAP (+3 / +1 / -2), reversal (+2) and
\* oversold (+2) contributions, and the reasons are one per non-zero contribution
\* in that order, with exactly one VWAP reason
C9_ScoreIsSumOfRules ==
    Scored =>
        /\ result.score = StatedValuation + StatedVWAP
                          + (IF StatedReversal THEN 2 ELSE 0)
                          + (IF StatedOversold THEN 2 ELSE 0)
        /\ result.reasons = StatedReasons

\* C9 witness: all four rules contribute
C9_Witness ==
    /\ Scored
    /\ result.reasons = <<"undervalued", "support held", "reversal candle", "mfi oversold">>
    /\ result.score = 10

\* C9 witness: a price at or below the VWAP
C9_BelowWitness ==
    /\ Scored
    /\ result.reasons = <<"overvalued", "below vwap">>

\* C10: a non-vetoed score lies in [-5, 10]; at or below the VWAP it is at most 5,
\* so Strong Buy is returned only above the VWAP
C10_ScoreRange ==
    /\ (PastVeto /\ ~IsAvoid) => (score >= -5 /\ score <= 10)
    /\ Scored =>
          /\ result.score >= -5
          /\ result.score <= 10
          /\ ~RGt(current_price, vwap) => result.score <= 5
          /\ result.verdict = "Strong Buy" => RGt(current_price, vwap)

\* C10 witness: the largest score at or below the VWAP
C10_Witness ==
    /\ Scored
    /\ ~RGt(current_price, vwap)
    /\ result.score = 5

\* C10 witnesses: both ends of the range
C10_LowestWitness == Scored /\ result.score = -5

C10_HighestWitness == Scored /\ result.score = 10 /\ result.verdict = "Strong Buy"

====
